---- MODULE Spec2Model ----
(***************************************************************************)
(* The OAuth2 / OpenID Connect token endpoint of authentik                 *)
(* (authentik/providers/oauth2/views/token.py): TokenParams validation and *)
(* the TokenView handlers, as a state machine over the authorization-code  *)
(* store, the refresh-token store, the user store and the requests in      *)
(* flight.  A request is handled in steps; every step holds at most one    *)
(* store write, so that concurrent requests interleave at the store.       *)
(* With it, the monitored background tasks (passbook/lib/tasks.py): one    *)
(* MonitoredTask instance, its runs and the TaskInfo it saves to the cache.*)
(***************************************************************************)
EXTENDS Integers, Sequences, FiniteSets, TLC

\* -------------------------------------------------------------- bounds
\* Number of refresh tokens the endpoint may mint in one behaviour.
MaxTokens == 2
\* The clock runs from 0 to MaxTime.
MaxTime == 1
\* The runs of the monitored task.
MaxRuns == 2

\* Python's None, an absent form field.
None == "None"

\* Request handlers that can be in flight at once.
Workers == {"w1", "w2"}

\* -------------------------------------------------------------- registry
\* The registered providers (OAuth2Provider rows).  redirect_uris is the
\* list of lines of the field; "(" is a pattern that does not compile.
OAuth2Provider ==
    [p1 |-> [client_id |-> "id1", client_secret |-> "s1",
             client_type |-> "confidential", name |-> "P1", token_validity |-> 1,
             redirect_uris |-> <<"https://app/cb">>],
     p2 |-> [client_id |-> "id2", client_secret |-> "s2",
             client_type |-> "public", name |-> "P2", token_validity |-> 1,
             redirect_uris |-> <<"https://app2/.*", "(">>]]

\* OAuth2Provider.objects.get(client_id=client_id); None is DoesNotExist.
ProviderByClientId(client_id) ==
    IF \E p \in DOMAIN OAuth2Provider : OAuth2Provider[p].client_id = client_id
    THEN CHOOSE p \in DOMAIN OAuth2Provider : OAuth2Provider[p].client_id = client_id
    ELSE None

\* Application.objects.filter(provider=p).first(): p2 has no application.
ApplicationOf(p) == IF p = "p1" THEN "app1" ELSE None

\* The authorization codes the authorization endpoint has issued; c0 was
\* exchanged for the refresh token rt0 before the model starts.
AuthorizationCode ==
    [c0 |-> [provider |-> "p1", user |-> "u1", scope |-> {"openid", "email"},
             nonce |-> "n0", is_open_id |-> TRUE,
             code_challenge |-> "", code_challenge_method |-> "",
             expires |-> MaxTime + 1],
     c1 |-> [provider |-> "p1", user |-> "u1", scope |-> {"openid", "email"},
             nonce |-> "n1", is_open_id |-> TRUE,
             code_challenge |-> "b64(sha256(v1))", code_challenge_method |-> "S256",
             expires |-> MaxTime + 1],
     c2 |-> [provider |-> "p1", user |-> "u1", scope |-> {"email"},
             nonce |-> None, is_open_id |-> FALSE,
             code_challenge |-> "v2", code_challenge_method |-> "plain",
             expires |-> 1],
     c3 |-> [provider |-> "p2", user |-> "u2", scope |-> {"openid"},
             nonce |-> "n3", is_open_id |-> TRUE,
             code_challenge |-> "", code_challenge_method |-> "",
             expires |-> MaxTime + 1]]

\* -------------------------------------------------------------- pure helpers
\* str.lower() on the redirect URIs of the model.
Lower(s) == IF s = "HTTPS://APP/CB" THEN "https://app/cb" ELSE s

\* re.compile: whether the pattern is a well-formed regular expression.
Compiles(x) == x # "("

\* The strings a well-formed pattern fully matches.
Language(x) ==
    CASE x = "https://app/cb" -> {"https://app/cb"}
      [] x = "https://app2/.*" -> {"https://app2/cb", "https://app2/x"}
      [] OTHER -> {}

\* any(fullmatch(x, uri) for x in urls), evaluated left to right: "True" at
\* the first match, "RegexError" at the first pattern that does not compile.
RECURSIVE AnyFullMatch(_, _, _)
AnyFullMatch(urls, uri, i) ==
    IF i > Len(urls) THEN "False"
    ELSE IF ~Compiles(urls[i]) THEN "RegexError"
    ELSE IF uri \in Language(urls[i]) THEN "True"
    ELSE AnyFullMatch(urls, uri, i + 1)

\* str.encode("ascii") succeeds.
IsAscii(s) == s # "v\\u00e9"

\* sha256(x).digest(), a collision-free digest.
Sha256(s) == "sha256(" \o s \o ")"

\* urlsafe_b64encode(d).decode("utf-8"): the 32-byte digest encodes with
\* one "=" of padding.
UrlsafeB64encode(d) == "b64(" \o d \o ")" \o "="

\* str.replace("=", "").
RECURSIVE StripEquals(_)
StripEquals(s) ==
    IF Len(s) = 0 THEN s
    ELSE IF SubSeq(s, 1, 1) = "=" THEN StripEquals(SubSeq(s, 2, Len(s)))
    ELSE SubSeq(s, 1, 1) \o StripEquals(SubSeq(s, 2, Len(s)))

\* The S256 transformation of a code verifier (token.py lines 197-201).
S256Challenge(code_verifier) ==
    StripEquals(UrlsafeB64encode(Sha256(code_verifier)))

\* RefreshToken.at_hash: BASE64URL(left half of SHA-256(access_token)).
AtHash(access_token) == "b64(left128(sha256(" \o access_token \o ")))"

\* set(self.params.scope) - set(self.params.refresh_token.scope)
UnauthorizedScopesFlipped(requested, granted) == granted \ requested

UnauthorizedScopes(requested, granted) == requested \ granted

\* -------------------------------------------------------------- state
VARIABLES
    codes,      \* the code values of the AuthorizationCode rows in the store
    tokens,     \* the RefreshToken rows in the store
    users,      \* the User rows in the store
    nextTok,    \* the number of the next random token value
    now,        \* the clock
    req,        \* per worker: the request it handles and its position
    consumed,   \* history: the codes whose exchange was answered with 200
    origin,     \* history: minted refresh_token value -> code it descends from
    idTokenDefault, \* what RefreshToken.id_token reads as when none was attached
    result,     \* MonitoredTask._result of the task instance
    cache,      \* the cache: key -> the TaskInfo saved under it
    task        \* the position of the task instance, and the history of its run

\* The state of the token endpoint but the clock, and that of the task.
tokenVars == <<codes, tokens, users, nextTok, req, consumed, origin, idTokenDefault>>
taskVars == <<result, cache, task>>

vars == <<codes, tokens, users, nextTok, now, req, consumed, origin, idTokenDefault,
          result, cache, task>>

\* The id_token of a RefreshToken that carries none.
NoIdToken == [sub |-> None, aud |-> None, nonce |-> None, at_hash |-> None]

\* A RefreshToken that is not there (DoesNotExist, or nothing loaded).
NoToken ==
    [refresh_token |-> None, access_token |-> None, provider |-> None,
     user |-> None, scope |-> {}, id_token |-> NoIdToken, revoked |-> FALSE,
     expires |-> 0]

\* ExpiringModel.is_expired.
IsExpired(row) == row.expires <= now

\* Token.filter_not_expired(key=password, intent=INTENT_APP_PASSWORD).first():
\* the app passwords that have not expired, by key.
AppPassword(password) ==
    CASE password = "pw1" -> [user |-> "u1", identifier |-> "tok1"]
      [] password = "pw2" -> [user |-> "u2", identifier |-> "tok2"]
      [] OTHER -> [user |-> None, identifier |-> None]

NoResponse ==
    [status |-> 0, error |-> None, fields |-> {}, access_token |-> None,
     refresh_token |-> None, id_token |-> NoIdToken, allow_origin |-> None]

BaseInput ==
    [method |-> "POST", client_id |-> "id1", client_secret |-> "s1",
     grant_type |-> "", code |-> "", redirect_uri |-> "https://app/cb",
     code_verifier |-> None, refresh_token |-> "", scope |-> {},
     username |-> None, password |-> None, client_assertion_type |-> "",
     client_assertion |-> None, origin |-> None]

Idle ==
    [pc |-> "idle", in |-> BaseInput, provider |-> None,
     authorization_code |-> None, refresh_token |-> NoToken, user |-> None,
     scope |-> {}, new |-> NoToken, events |-> {}, late |-> FALSE,
     gate |-> "not run", resp |-> NoResponse]

\* The row create_code_response saved when c0 was exchanged.
InitialToken ==
    [refresh_token |-> "rt0", access_token |-> "at0", provider |-> "p1",
     user |-> "u1", scope |-> {"openid", "email"},
     id_token |-> [sub |-> "u1", aud |-> "id1", nonce |-> "n0",
                   at_hash |-> AtHash("at0")],
     revoked |-> FALSE, expires |-> MaxTime + 1]

\* -------------------------------------------------------------- task data
\* class TaskResultStatus
TaskResultStatus == {"SUCCESSFUL", "WARNING", "ERROR"}

\* dataclass TaskResult; error is left at its default.
TaskResult(status, messages, uid) ==
    [status |-> status, messages |-> messages, error |-> None, uid |-> uid]

\* No TaskResult: what a run that has not called set_status has passed.
NoTaskResult == TaskResult(None, <<>>, None)

\* dataclass TaskInfo
TaskInfo(task_name, task_description, finish_timestamp, res) ==
    [task_name |-> task_name, task_description |-> task_description,
     finish_timestamp |-> finish_timestamp, result |-> res]

\* A cache key with nothing under it.
NoTaskInfo == TaskInfo(None, None, 0, NoTaskResult)

\* self.__name__ and self.__doc__ of the task.
TaskName == "clean_tokens"
TaskDoc == "Remove expired tokens"

\* The uids a task passes in its results; None and "" are falsy.
Uids == {None, "", "u1"}

\* f"task_{self.task_name}", and with a truthy uid f"_{self.result.uid}" added.
CacheKey(task_name, uid) ==
    IF uid \notin {None, ""} THEN "task_" \o task_name \o "_" \o uid
    ELSE "task_" \o task_name

CacheKeys == {CacheKey(TaskName, uid) : uid \in Uids}

\* The task instance outside a run, before its first run.
TaskIdle ==
    [pc |-> "idle", runs |-> 0, called |-> FALSE, passed |-> NoTaskResult,
     saved |-> NoTaskInfo]

\* MonitoredTask.__init__, and a cache that holds nothing of the task yet.
TaskInit ==
    /\ result = TaskResult("ERROR", <<>>, None)
    /\ cache = [k \in CacheKeys |-> NoTaskInfo]
    /\ task = TaskIdle

Init ==
    /\ TaskInit
    /\ codes = DOMAIN AuthorizationCode \ {"c0"}
    /\ tokens = {InitialToken}
    /\ users = {[username |-> "u1", generated |-> FALSE, expires |-> <<>>],
                [username |-> "u2", generated |-> FALSE, expires |-> <<>>]}
    /\ nextTok = 1
    /\ now = 0
    /\ req = [w \in Workers |-> Idle]
    /\ consumed = {"c0"}
    /\ origin = {<<"rt0", "c0">>}
    /\ idTokenDefault \in {"None", "IdToken"}

\* -------------------------------------------------------------- JWT keys
\* provider.verification_keys.all()
VerificationKeys(p) == IF p = "p1" THEN <<"k1">> ELSE <<>>

\* provider.jwks_sources.all(), each with oidc_jwks["keys"]
JwksSources(p) ==
    IF p = "p1" THEN <<[name |-> "src1", keys |-> <<"jk1", "jkBad", "jk2">>]>>
    ELSE <<>>

\* The client assertions of the model: the key that signed each, its claims.
Assertions ==
    [jwtA |-> [signer |-> "k1", sub |-> "svc", exp |-> <<>>],
     jwtB |-> [signer |-> "jk1", sub |-> "svc", exp |-> <<MaxTime + 1>>],
     jwtC |-> [signer |-> "jk1", sub |-> "svc", exp |-> <<1>>],
     jwtX |-> [signer |-> "kx", sub |-> "svc", exp |-> <<>>]]

\* The claims of an assertion no key has verified (token = None).
NoClaims == [verified |-> FALSE, sub |-> None, exp |-> <<>>]

\* jwt.decode(assertion, key, ...): the claims when the key verifies the
\* signature and exp, if present, is in the future; a PyJWTError otherwise.
Decode(assertion, key) ==
    IF /\ assertion \in DOMAIN Assertions
       /\ Assertions[assertion].signer = key
       /\ \A e \in {Assertions[assertion].exp[i] :
                       i \in 1..Len(Assertions[assertion].exp)} : e > now
    THEN [verified |-> TRUE, sub |-> Assertions[assertion].sub,
          exp |-> Assertions[assertion].exp]
    ELSE NoClaims

\* PyJWK.from_dict(key) succeeds.
JwkParses(key) == key # "jkBad"

\* The loop over provider.verification_keys (lines 290-306).
RECURSIVE VerifyStatic(_, _, _, _)
VerifyStatic(certs, assertion, i, token) ==
    IF i > Len(certs) THEN token
    ELSE LET d == Decode(assertion, certs[i])
         IN  VerifyStatic(certs, assertion, i + 1, IF d.verified THEN d ELSE token)

\* VerifyKeys with the token reset by a key that fails to verify.
RECURSIVE VerifyKeysLastWins(_, _, _, _)
VerifyKeysLastWins(keys, assertion, i, st) ==
    IF i > Len(keys) THEN st
    ELSE IF ~JwkParses(keys[i]) THEN VerifyKeysLastWins(keys, assertion, i + 1, st)
    ELSE LET d == Decode(assertion, keys[i])
         IN  VerifyKeysLastWins(keys, assertion, i + 1,
                                [token |-> d, parsed_key |-> keys[i]])

\* The inner loop over the keys of one source (lines 314-329): st is
\* [token, parsed_key].
RECURSIVE VerifyKeys(_, _, _, _)
VerifyKeys(keys, assertion, i, st) ==
    IF i > Len(keys) THEN st
    ELSE IF ~JwkParses(keys[i]) THEN VerifyKeys(keys, assertion, i + 1, st)
    ELSE LET d == Decode(assertion, keys[i])
         IN  VerifyKeys(keys, assertion, i + 1,
                        [token |-> IF d.verified THEN d ELSE st.token,
                         parsed_key |-> keys[i]])

\* The loop over provider.jwks_sources (lines 309-329): st is
\* [token, source, parsed_key].
RECURSIVE VerifySources(_, _, _, _)
VerifySources(sources, assertion, i, st) ==
    IF i > Len(sources) THEN st
    ELSE LET k == VerifyKeys(sources[i].keys, assertion, 1,
                             [token |-> st.token, parsed_key |-> st.parsed_key])
         IN  VerifySources(sources, assertion, i + 1,
                           [token |-> k.token, source |-> sources[i].name,
                            parsed_key |-> k.parsed_key])

\* -------------------------------------------------------------- events
Event(action, method, source, jwk_id) ==
    [action |-> action, method |-> method, source |-> source, jwk_id |-> jwk_id]

ConfigurationError == Event("CONFIGURATION_ERROR", None, None, None)
SuspiciousRequest == Event("SUSPICIOUS_REQUEST", None, None, None)

\* -------------------------------------------------------------- TokenParams
\* The outcome of TokenParams.__post_init__: error is None when validation
\* passed, a TokenError code, or the name of an exception nothing catches.
Outcome(error, events, authorization_code, refresh_token, user, scope, newUsers) ==
    [error |-> error, events |-> events,
     authorization_code |-> authorization_code, refresh_token |-> refresh_token,
     user |-> user, scope |-> scope, users |-> newUsers]

Raise(error, events, in) == Outcome(error, events, None, NoToken, None, in.scope, users)

\* Validate PKCE parameters (lines 194-207).
PkceOutcome(in, code) ==
    LET ac == AuthorizationCode[code]
        ok == Outcome(None, {}, code, NoToken, None, in.scope, users)
    IN  IF in.code_verifier \in {None, ""} THEN ok
        ELSE IF ac.code_challenge_method = "S256" /\ ~IsAscii(in.code_verifier)
        THEN Raise("UnicodeEncodeError", {}, in)
        ELSE LET new_code_challenge ==
                     IF ac.code_challenge_method = "S256"
                     THEN S256Challenge(in.code_verifier)
                     ELSE in.code_verifier
             IN  IF new_code_challenge # ac.code_challenge
                 THEN Raise("invalid_grant", {}, in)
                 ELSE ok

\* __post_init_code without the comparison of the code's provider.
PostInitCodeAnyProvider(p, in) ==
    LET redirect_uri == Lower(in.redirect_uri)
        matched == AnyFullMatch(OAuth2Provider[p].redirect_uris, redirect_uri, 1)
    IN  IF in.code = "" THEN Raise("invalid_grant", {}, in)
        ELSE IF matched # "True" THEN Raise("invalid_client", {ConfigurationError}, in)
        ELSE IF in.code \notin codes THEN Raise("invalid_grant", {}, in)
        ELSE IF IsExpired(AuthorizationCode[in.code]) THEN Raise("invalid_grant", {}, in)
        ELSE PkceOutcome(in, in.code)

\* TokenParams.__post_init_code
PostInitCode(p, in) ==
    LET redirect_uri == Lower(in.redirect_uri)
        matched == AnyFullMatch(OAuth2Provider[p].redirect_uris, redirect_uri, 1)
    IN  IF in.code = "" THEN Raise("invalid_grant", {}, in)
        ELSE IF matched # "True" THEN Raise("invalid_client", {ConfigurationError}, in)
        ELSE IF in.code \notin codes THEN Raise("invalid_grant", {}, in)
        ELSE IF IsExpired(AuthorizationCode[in.code]) THEN Raise("invalid_grant", {}, in)
        ELSE IF \/ AuthorizationCode[in.code].provider # p
                \/ IsExpired(AuthorizationCode[in.code])
        THEN Raise("invalid_grant", {}, in)
        ELSE PkceOutcome(in, in.code)

\* RefreshToken.objects.get(refresh_token=raw_token, provider=p)
GetRefreshToken(raw_token, p) ==
    IF \E r \in tokens : r.refresh_token = raw_token /\ r.provider = p
    THEN CHOOSE r \in tokens : r.refresh_token = raw_token /\ r.provider = p
    ELSE NoToken

\* TokenParams.__post_init_refresh
PostInitRefresh(p, in) ==
    LET rt == GetRefreshToken(in.refresh_token, p)
    IN  IF in.refresh_token = "" THEN Raise("invalid_grant", {}, in)
        ELSE IF rt = NoToken THEN Raise("invalid_grant", {}, in)
        ELSE IF IsExpired(rt) THEN Raise("invalid_grant", {}, in)
        ELSE IF rt.revoked THEN Raise("invalid_grant", {SuspiciousRequest}, in)
        ELSE Outcome(None, {}, None, rt, None,
                     IF in.scope = {} THEN rt.scope ELSE in.scope, users)

\* TokenParams.__create_user_from_jwt: User.objects.update_or_create on the
\* username, the defaults replacing the attributes of a user that exists;
\* EXPIRES is set only on a user just created, from a truthy exp.
CreateUserFromJwt(p, token) ==
    LET username == OAuth2Provider[p].name \o "-" \o token.sub
        created == ~\E u \in users : u.username = username
        exp == token.exp
        row == [username |-> username, generated |-> TRUE,
                expires |-> IF created /\ exp # <<>> /\ exp # <<0>> THEN exp ELSE <<>>]
    IN  [user |-> username,
         users |-> {u \in users : u.username # username} \cup {row}]

\* __post_init_client_credentials_jwt synthesizing the user before the
\* policy gate is consulted.
PostInitClientCredentialsJwtUserFirst(p, in, passing) ==
    LET assertion == IF in.client_assertion # None THEN in.client_assertion
                     ELSE in.client_secret
        static == VerifyStatic(VerificationKeys(p), assertion, 1, NoClaims)
        st == VerifySources(JwksSources(p), assertion, 1,
                            [token |-> static, source |-> None, parsed_key |-> None])
        token == st.token
        made == CreateUserFromJwt(p, token)
    IN  IF in.client_assertion_type # "urn:ietf:params:oauth:client-assertion-type:jwt-bearer"
        THEN Raise("invalid_grant", {}, in)
        ELSE IF assertion \in {None, ""} THEN Raise("invalid_grant", {}, in)
        ELSE IF ~token.verified THEN Raise("invalid_grant", {}, in)
        ELSE IF \E i \in 1..Len(token.exp) : now >= token.exp[i]
        THEN Raise("invalid_grant", {}, in)
        ELSE IF ApplicationOf(p) = None THEN Raise("invalid_grant", {}, in)
        ELSE IF ~passing
        THEN Outcome("invalid_grant", {}, None, NoToken, None, in.scope, made.users)
        ELSE Outcome(None, {Event("LOGIN", "jwt", st.source, st.parsed_key)},
                     None, NoToken, made.user, in.scope, made.users)

\* TokenParams.__post_init_client_credentials_jwt; passing is the result of
\* the policy engine.
PostInitClientCredentialsJwt(p, in, passing) ==
    LET assertion == IF in.client_assertion # None THEN in.client_assertion
                     ELSE in.client_secret
        static == VerifyStatic(VerificationKeys(p), assertion, 1, NoClaims)
        st == VerifySources(JwksSources(p), assertion, 1,
                            [token |-> static, source |-> None, parsed_key |-> None])
        token == st.token
        made == CreateUserFromJwt(p, token)
    IN  IF in.client_assertion_type # "urn:ietf:params:oauth:client-assertion-type:jwt-bearer"
        THEN Raise("invalid_grant", {}, in)
        ELSE IF assertion \in {None, ""} THEN Raise("invalid_grant", {}, in)
        ELSE IF ~token.verified THEN Raise("invalid_grant", {}, in)
        ELSE IF \E i \in 1..Len(token.exp) : now >= token.exp[i]
        THEN Raise("invalid_grant", {}, in)
        ELSE IF ApplicationOf(p) = None THEN Raise("invalid_grant", {}, in)
        ELSE IF ~passing THEN Raise("invalid_grant", {}, in)
        ELSE Outcome(None, {Event("LOGIN", "jwt", st.source, st.parsed_key)},
                     None, NoToken, made.user, in.scope, made.users)

\* TokenParams.__post_init_client_credentials
PostInitClientCredentials(p, in, passing) ==
    LET token == AppPassword(in.password)
    IN  IF in.client_assertion_type # ""
        THEN PostInitClientCredentialsJwt(p, in, passing)
        ELSE IF ~\E u \in users : u.username = in.username
        THEN Raise("invalid_grant", {}, in)
        ELSE IF token.user = None \/ token.user # in.username
        THEN Raise("invalid_grant", {}, in)
        ELSE IF ApplicationOf(p) = None THEN Raise("invalid_grant", {}, in)
        ELSE IF ~passing THEN Raise("invalid_grant", {}, in)
        ELSE Outcome(None, {Event("LOGIN", "token", None, None)},
                     None, NoToken, in.username, in.scope, users)

\* __post_init__ checking the client secret for every grant type.
PostInitSecretAlways(p, in, passing) ==
    IF /\ OAuth2Provider[p].client_type = "confidential"
       /\ OAuth2Provider[p].client_secret # in.client_secret
    THEN Raise("invalid_client", {}, in)
    ELSE IF in.grant_type = "authorization_code" THEN PostInitCode(p, in)
    ELSE IF in.grant_type = "refresh_token" THEN PostInitRefresh(p, in)
    ELSE IF in.grant_type \in {"client_credentials", "password"}
    THEN PostInitClientCredentials(p, in, passing)
    ELSE Raise("unsupported_grant_type", {}, in)

\* TokenParams.__post_init__
PostInit(p, in, passing) ==
    IF /\ in.grant_type \in {"authorization_code", "refresh_token"}
       /\ OAuth2Provider[p].client_type = "confidential"
       /\ OAuth2Provider[p].client_secret # in.client_secret
    THEN Raise("invalid_client", {}, in)
    ELSE IF in.grant_type = "authorization_code" THEN PostInitCode(p, in)
    ELSE IF in.grant_type = "refresh_token" THEN PostInitRefresh(p, in)
    ELSE IF in.grant_type \in {"client_credentials", "password"}
    THEN PostInitClientCredentials(p, in, passing)
    ELSE Raise("unsupported_grant_type", {}, in)

\* The result (result.passing) of the policy engine in a request that ran
\* __check_policy_access; "not run" when validation ended before it.
GateResult(p, in, passing) ==
    IF p = None \/ PostInit(p, in, TRUE) = PostInit(p, in, FALSE) THEN "not run"
    ELSE IF passing THEN "passing" ELSE "denied"

\* -------------------------------------------------------------- TokenMinter
\* OAuth2Provider.create_refresh_token: two fresh random values, expiry from
\* the provider's token_validity; the row is not saved yet.
CreateRefreshToken(p, user, scope) ==
    [refresh_token |-> "rt" \o ToString(nextTok),
     access_token |-> "at" \o ToString(nextTok),
     provider |-> p, user |-> user, scope |-> scope, id_token |-> NoIdToken,
     revoked |-> FALSE, expires |-> now + OAuth2Provider[p].token_validity]

\* RefreshToken.create_id_token: nonce and at_hash are left to the caller.
CreateIdToken(rt, user) ==
    [sub |-> user, aud |-> OAuth2Provider[rt.provider].client_id,
     nonce |-> None, at_hash |-> None]

\* bool(refresh_token.id_token).  The id_token accessor of RefreshToken is
\* outside token.py: on a row no IdToken was attached to it yields either
\* None or an IdToken without claims, the same in every request of a build.
HasIdToken(rt) == rt.id_token # NoIdToken \/ idTokenDefault = "IdToken"

\* -------------------------------------------------------------- responses
TokenErrors ==
    {"invalid_client", "invalid_grant", "invalid_scope", "unsupported_grant_type"}

\* The origin (scheme and host) of a configured redirect URI.
OriginOf(uri) ==
    CASE uri = "https://app/cb" -> "https://app"
      [] uri = "https://app2/.*" -> "https://app2"
      [] OTHER -> None

\* utils.cors_allow(request, response, *allowed_origins): the request's
\* Origin is allowed when it is the origin of one of allowed_origins.
CorsAllow(request_origin, allowed_origins) ==
    IF /\ request_origin # None
       /\ \E i \in 1..Len(allowed_origins) : OriginOf(allowed_origins[i]) = request_origin
    THEN request_origin
    ELSE None

\* TokenView.dispatch: the CORS headers of a response the handler returned;
\* provider is self.provider, None unless post() has looked it up.
Dispatch(provider, in, resp) ==
    [resp EXCEPT !.allow_origin =
        CorsAllow(in.origin,
                  IF provider # None THEN OAuth2Provider[provider].redirect_uris
                  ELSE <<>>)]

\* TokenResponse(error.create_dict(), status=400)
ErrorResponse(error) == [NoResponse EXCEPT !.status = 400, !.error = error]

\* An exception post() does not catch: the server answers 500.
InternalError(exception) == [NoResponse EXCEPT !.status = 500, !.error = exception]

\* The dict a create_*_response returns for the minted token rt, as post()
\* answers it; reading rt.id_token.to_dict() raises when id_token is None.
TokenResponse(rt, fields) ==
    IF ~HasIdToken(rt) THEN InternalError("AttributeError")
    ELSE [NoResponse EXCEPT
             !.status = 200, !.fields = fields,
             !.access_token = rt.access_token,
             !.refresh_token = IF "refresh_token" \in fields THEN rt.refresh_token
                               ELSE None,
             !.id_token = rt.id_token]

\* A response post() returned goes through dispatch; an exception does not.
Returned(provider, in, resp) ==
    IF resp.status = 500 THEN resp ELSE Dispatch(provider, in, resp)

\* -------------------------------------------------------------- requests
TokenValues == {"rt" \o ToString(i) : i \in 0..MaxTokens}

Verifiers == {None, "", "v1", "v2", "b64(sha256(v1))", "v\\u00e9"}

RequestedScopes == {{}, {"email"}, {"email", "admin"}}

CodeRequest == [BaseInput EXCEPT !.grant_type = "authorization_code"]
RefreshRequest == [BaseInput EXCEPT !.grant_type = "refresh_token"]
CredentialsRequest == [BaseInput EXCEPT !.grant_type = "client_credentials"]
JwtType == "urn:ietf:params:oauth:client-assertion-type:jwt-bearer"

CodeInputs ==
    {[CodeRequest EXCEPT !.code = "c1", !.code_verifier = v] : v \in Verifiers}
    \cup {[CodeRequest EXCEPT !.code = "c2", !.code_verifier = v] :
            v \in {None, "v1", "v2"}}
    \cup {[CodeRequest EXCEPT !.client_id = "id2", !.client_secret = "",
                              !.code = c, !.redirect_uri = u] :
            c \in {"c1", "c3"}, u \in {"https://app2/cb", "https://evil/cb"}}
    \cup {[CodeRequest EXCEPT !.code = c] : c \in {"", "zz", "c0"}}
    \cup {[CodeRequest EXCEPT !.code = "c1", !.code_verifier = "v1",
                              !.redirect_uri = u] :
            u \in {"HTTPS://APP/CB", "https://evil/cb"}}
    \cup {[CodeRequest EXCEPT !.code = "c1", !.code_verifier = "v1",
                              !.client_secret = "bad"],
          [CodeRequest EXCEPT !.code = "c1", !.code_verifier = "v1",
                              !.client_id = "idX"],
          [CodeRequest EXCEPT !.code = "c1", !.code_verifier = "v1",
                              !.scope = {"admin"}]}

RefreshInputs ==
    {[RefreshRequest EXCEPT !.refresh_token = t] : t \in TokenValues \cup {""}}
    \cup {[RefreshRequest EXCEPT !.refresh_token = t, !.scope = sc] :
            t \in {"rt0", "rt1"}, sc \in RequestedScopes}
    \cup {[RefreshRequest EXCEPT !.refresh_token = "rt0", !.client_secret = "bad"]}
    \cup {[RefreshRequest EXCEPT !.refresh_token = t, !.client_id = "id2",
                                 !.client_secret = ""] : t \in {"rt0", "rt1"}}

CredentialsInputs ==
    {[CredentialsRequest EXCEPT !.username = u, !.password = pw] :
        u \in {"u1", "ux"}, pw \in {"pw1", "pw2"}}
    \cup {[CredentialsRequest EXCEPT !.client_assertion_type = JwtType,
                                     !.client_assertion = a] :
            a \in DOMAIN Assertions \cup {None}}
    \cup {[CredentialsRequest EXCEPT !.username = "u1", !.password = "pw1",
                                     !.client_id = "id2"],
          [CredentialsRequest EXCEPT !.username = "u1", !.password = "pw1",
                                     !.grant_type = "password"],
          [CredentialsRequest EXCEPT !.client_assertion_type = "saml"],
          [CredentialsRequest EXCEPT !.client_assertion_type = JwtType,
                                     !.client_secret = "jwtA"],
          [CredentialsRequest EXCEPT !.client_assertion_type = JwtType,
                                     !.client_assertion = "jwtA",
                                     !.client_id = "id2"]}

OtherInputs ==
    {[BaseInput EXCEPT !.grant_type = g, !.client_secret = cs] :
        g \in {"device_code", ""}, cs \in {"s1", "bad"}}
    \cup {[BaseInput EXCEPT !.grant_type = "device_code", !.client_id = "id2",
                            !.client_secret = ""]}
    \cup {[BaseInput EXCEPT !.grant_type = g, !.client_id = "idX"] :
            g \in {"refresh_token", "client_credentials", "password", "device_code"}}

\* The POST requests of the sequential specification.
Inputs == CodeInputs \cup RefreshInputs \cup CredentialsInputs \cup OtherInputs

\* The OPTIONS requests: a browser's preflight from some origin.
OptionsInputs ==
    {[BaseInput EXCEPT !.method = "OPTIONS", !.client_id = c, !.origin = o] :
        c \in {"id1", "id2"}, o \in {"https://app", "https://app2", "https://evil"}}

\* The requests of the concurrent specification: valid exchanges.
ConcInputs ==
    {[CodeRequest EXCEPT !.code = "c1", !.code_verifier = "v1"],
     [CodeRequest EXCEPT !.code = "c2", !.code_verifier = "v2"],
     [RefreshRequest EXCEPT !.refresh_token = "rt0"],
     [CredentialsRequest EXCEPT !.username = "u1", !.password = "pw1"]}

\* Requests that passed validation and have not minted their token yet.
Reserved ==
    Cardinality({w \in Workers :
        req[w].pc \in {"create_code_response", "create_refresh_response",
                       "create_client_credentials_response"}})

\* History: the request presents a credential that was used up before it
\* arrived (a code already exchanged, a refresh token already revoked).
Replayed(in) ==
    \/ in.grant_type = "authorization_code" /\ in.code \in consumed
    \/ /\ in.grant_type = "refresh_token"
       /\ \E r \in tokens : r.refresh_token = in.refresh_token /\ r.revoked

\* -------------------------------------------------------------- actions
\* TokenView.post up to its dispatch on grant_type: the provider lookup and
\* TokenParams.parse, which validates the grant (__post_init__).  A
\* TokenError is answered 400; the password grant passes validation and
\* then meets `raise ValueError` (line 428).
Post(w, in) ==
    /\ req[w].pc = "idle"
    /\ in.method = "POST"
    /\ \E passing \in BOOLEAN :
        LET p == ProviderByClientId(in.client_id)
            v == IF p = None THEN Raise("invalid_client", {}, in)
                 ELSE PostInit(p, in, passing)
            r == [Idle EXCEPT !.in = in, !.provider = p, !.events = v.events,
                              !.late = Replayed(in),
                              !.gate = GateResult(p, in, passing)]
        IN  /\ (v.error = None /\ in.grant_type # "password")
                  => nextTok + Reserved <= MaxTokens
            /\ users' = v.users
            /\ req' = [req EXCEPT ![w] =
                  IF v.error \in TokenErrors
                  THEN [r EXCEPT !.pc = "done",
                                 !.resp = Returned(p, in, ErrorResponse(v.error))]
                  ELSE IF v.error # None
                  THEN [r EXCEPT !.pc = "done", !.resp = InternalError(v.error)]
                  ELSE IF in.grant_type = "password"
                  THEN [r EXCEPT !.pc = "done", !.user = v.user,
                                 !.resp = InternalError("ValueError")]
                  ELSE [r EXCEPT
                          !.pc = CASE in.grant_type = "authorization_code"
                                        -> "create_code_response"
                                   [] in.grant_type = "refresh_token"
                                        -> "create_refresh_response"
                                   [] OTHER -> "create_client_credentials_response",
                          !.authorization_code = v.authorization_code,
                          !.refresh_token = v.refresh_token,
                          !.user = v.user, !.scope = v.scope]]
    /\ UNCHANGED <<codes, tokens, nextTok, now, consumed, origin, idTokenDefault, taskVars>>

\* TokenView.options, through dispatch: self.provider is still the class
\* attribute None, since only post() assigns it.
Options(w, in) ==
    /\ req[w].pc = "idle"
    /\ in.method = "OPTIONS"
    /\ req' = [req EXCEPT ![w] =
          [Idle EXCEPT !.pc = "done", !.in = in,
                       !.resp = Dispatch(None, in, [NoResponse EXCEPT !.status = 200])]]
    /\ UNCHANGED <<codes, tokens, users, nextTok, now, consumed, origin, idTokenDefault, taskVars>>

\* create_code_response, lines 437-453: mint, attach the id_token of an
\* OpenID code, save the new row.
CreateCodeResponse(w) ==
    /\ req[w].pc = "create_code_response"
    /\ LET code == req[w].authorization_code
           ac == AuthorizationCode[code]
           refresh_token == CreateRefreshToken(ac.provider, ac.user, ac.scope)
           id_token == [CreateIdToken(refresh_token, ac.user) EXCEPT
                           !.nonce = ac.nonce,
                           !.at_hash = AtHash(refresh_token.access_token)]
           new == IF ac.is_open_id
                  THEN [refresh_token EXCEPT !.id_token = id_token]
                  ELSE refresh_token
       IN  /\ tokens' = tokens \cup {new}
           /\ nextTok' = nextTok + 1
           /\ origin' = origin \cup {<<new.refresh_token, code>>}
           /\ req' = [req EXCEPT ![w].pc = "delete_code", ![w].new = new]
    /\ UNCHANGED <<codes, users, now, consumed, idTokenDefault, taskVars>>

\* DeleteCode without the delete: the code stays in the store.
DeleteCodeKeep(w) ==
    /\ req[w].pc = "delete_code"
    /\ LET resp == Returned(req[w].provider, req[w].in,
                            TokenResponse(req[w].new,
                                {"access_token", "refresh_token", "token_type",
                                 "expires_in", "id_token"}))
       IN  /\ consumed' = IF resp.status = 200
                          THEN consumed \cup {req[w].authorization_code}
                          ELSE consumed
           /\ req' = [req EXCEPT ![w].pc = "done", ![w].resp = resp]
    /\ UNCHANGED <<codes, tokens, users, nextTok, now, origin, idTokenDefault, taskVars>>

\* create_code_response, lines 455-466: delete the code, build the response.
DeleteCode(w) ==
    /\ req[w].pc = "delete_code"
    /\ LET resp == Returned(req[w].provider, req[w].in,
                            TokenResponse(req[w].new,
                                {"access_token", "refresh_token", "token_type",
                                 "expires_in", "id_token"}))
       IN  /\ codes' = codes \ {req[w].authorization_code}
           /\ consumed' = IF resp.status = 200
                          THEN consumed \cup {req[w].authorization_code}
                          ELSE consumed
           /\ req' = [req EXCEPT ![w].pc = "done", ![w].resp = resp]
    /\ UNCHANGED <<tokens, users, nextTok, now, origin, idTokenDefault, taskVars>>

\* CreateRefreshResponse with at_hash taken from the presented row's
\* access token instead of the new one's.
CreateRefreshResponseStale(w) ==
    /\ req[w].pc = "create_refresh_response"
    /\ LET prev == req[w].refresh_token
           refresh_token == CreateRefreshToken(prev.provider, prev.user, req[w].scope)
           id_token == [CreateIdToken(refresh_token, prev.user) EXCEPT
                           !.at_hash = AtHash(prev.access_token)]
           new == IF HasIdToken(prev)
                  THEN [refresh_token EXCEPT !.id_token = id_token]
                  ELSE refresh_token
       IN  IF UnauthorizedScopes(req[w].scope, prev.scope) # {}
           THEN /\ req' = [req EXCEPT
                     ![w].pc = "done",
                     ![w].resp = Returned(req[w].provider, req[w].in,
                                          ErrorResponse("invalid_scope"))]
                /\ UNCHANGED <<tokens, nextTok, origin>>
           ELSE /\ tokens' = IF HasIdToken(prev) THEN tokens \cup {new} ELSE tokens
                /\ nextTok' = nextTok + 1
                /\ origin' = origin \cup
                      {<<new.refresh_token, o[2]>> :
                          o \in {x \in origin : x[1] = prev.refresh_token}}
                /\ req' = [req EXCEPT ![w].pc = "revoke", ![w].new = new]
    /\ UNCHANGED <<codes, users, now, consumed, idTokenDefault, taskVars>>

\* CreateRefreshResponse saving the new row before the scope check.
CreateRefreshResponseMintFirst(w) ==
    /\ req[w].pc = "create_refresh_response"
    /\ LET prev == req[w].refresh_token
           refresh_token == CreateRefreshToken(prev.provider, prev.user, req[w].scope)
           id_token == [CreateIdToken(refresh_token, prev.user) EXCEPT
                           !.at_hash = AtHash(refresh_token.access_token)]
           new == IF HasIdToken(prev)
                  THEN [refresh_token EXCEPT !.id_token = id_token]
                  ELSE refresh_token
       IN  /\ tokens' = IF HasIdToken(prev) THEN tokens \cup {new} ELSE tokens
           /\ nextTok' = nextTok + 1
           /\ origin' = origin \cup
                 {<<new.refresh_token, o[2]>> :
                     o \in {x \in origin : x[1] = prev.refresh_token}}
           /\ IF UnauthorizedScopes(req[w].scope, prev.scope) # {}
              THEN req' = [req EXCEPT
                     ![w].pc = "done",
                     ![w].resp = Returned(req[w].provider, req[w].in,
                                          ErrorResponse("invalid_scope"))]
              ELSE req' = [req EXCEPT ![w].pc = "revoke", ![w].new = new]
    /\ UNCHANGED <<codes, users, now, consumed, idTokenDefault, taskVars>>

\* create_refresh_response, lines 471-492: the scope check, then mint; the
\* new row is saved inside the branch that attaches an id_token.
CreateRefreshResponse(w) ==
    /\ req[w].pc = "create_refresh_response"
    /\ LET prev == req[w].refresh_token
           refresh_token == CreateRefreshToken(prev.provider, prev.user, req[w].scope)
           id_token == [CreateIdToken(refresh_token, prev.user) EXCEPT
                           !.at_hash = AtHash(refresh_token.access_token)]
           new == IF HasIdToken(prev)
                  THEN [refresh_token EXCEPT !.id_token = id_token]
                  ELSE refresh_token
       IN  IF UnauthorizedScopes(req[w].scope, prev.scope) # {}
           THEN /\ req' = [req EXCEPT
                     ![w].pc = "done",
                     ![w].resp = Returned(req[w].provider, req[w].in,
                                          ErrorResponse("invalid_scope"))]
                /\ UNCHANGED <<tokens, nextTok, origin>>
           ELSE /\ tokens' = IF HasIdToken(prev) THEN tokens \cup {new} ELSE tokens
                /\ nextTok' = nextTok + 1
                /\ origin' = origin \cup
                      {<<new.refresh_token, o[2]>> :
                          o \in {x \in origin : x[1] = prev.refresh_token}}
                /\ req' = [req EXCEPT ![w].pc = "revoke", ![w].new = new]
    /\ UNCHANGED <<codes, users, now, consumed, idTokenDefault, taskVars>>

\* Revoke without setting revoked: the old row is saved as it was loaded.
RevokeUnset(w) ==
    /\ req[w].pc = "revoke"
    /\ LET prev == req[w].refresh_token
       IN  tokens' = {r \in tokens : r.refresh_token # prev.refresh_token}
                        \cup {prev}
    /\ req' = [req EXCEPT
          ![w].pc = "done",
          ![w].resp = Returned(req[w].provider, req[w].in,
                               TokenResponse(req[w].new,
                                   {"access_token", "refresh_token", "token_type",
                                    "expires_in", "id_token"}))]
    /\ UNCHANGED <<codes, users, nextTok, now, consumed, origin, idTokenDefault, taskVars>>

\* create_refresh_response, lines 494-506: save the old row with revoked
\* set, build the response.
Revoke(w) ==
    /\ req[w].pc = "revoke"
    /\ LET prev == req[w].refresh_token
       IN  tokens' = {r \in tokens : r.refresh_token # prev.refresh_token}
                        \cup {[prev EXCEPT !.revoked = TRUE]}
    /\ req' = [req EXCEPT
          ![w].pc = "done",
          ![w].refresh_token.revoked = TRUE,
          ![w].resp = Returned(req[w].provider, req[w].in,
                               TokenResponse(req[w].new,
                                   {"access_token", "refresh_token", "token_type",
                                    "expires_in", "id_token"}))]
    /\ UNCHANGED <<codes, users, nextTok, now, consumed, origin, idTokenDefault, taskVars>>

\* create_client_credentials_response: mint, always attach an id_token,
\* save, answer without a refresh_token.
CreateClientCredentialsResponse(w) ==
    /\ req[w].pc = "create_client_credentials_response"
    /\ LET refresh_token == CreateRefreshToken(req[w].provider, req[w].user, req[w].scope)
           id_token == [CreateIdToken(refresh_token, req[w].user) EXCEPT
                           !.at_hash = AtHash(refresh_token.access_token)]
           new == [refresh_token EXCEPT !.id_token = id_token]
       IN  /\ tokens' = tokens \cup {new}
           /\ nextTok' = nextTok + 1
           /\ req' = [req EXCEPT
                 ![w].pc = "done", ![w].new = new,
                 ![w].resp = Returned(req[w].provider, req[w].in,
                                      TokenResponse(new,
                                          {"access_token", "token_type",
                                           "expires_in", "id_token"}))]
    /\ UNCHANGED <<codes, users, now, consumed, origin, idTokenDefault, taskVars>>

\* The response has been sent; the worker takes the next request.
Finish(w) ==
    /\ req[w].pc = "done"
    /\ req' = [req EXCEPT ![w] = Idle]
    /\ UNCHANGED <<codes, tokens, users, nextTok, now, consumed, origin, idTokenDefault, taskVars>>

\* Time passes.
Tick ==
    /\ now < MaxTime
    /\ now' = now + 1
    /\ UNCHANGED <<codes, tokens, users, nextTok, req, consumed, origin, idTokenDefault, taskVars>>

Step(w) ==
    \/ CreateCodeResponse(w)
    \/ DeleteCode(w)
    \/ CreateRefreshResponse(w)
    \/ Revoke(w)
    \/ CreateClientCredentialsResponse(w)
    \/ Finish(w)

\* Requests one at a time: a request is taken when no other is in flight.
Next ==
    \/ /\ \A w \in Workers : req[w].pc = "idle"
       /\ \/ \E in \in Inputs : Post("w1", in)
          \/ \E in \in OptionsInputs : Options("w1", in)
    \/ Step("w1")
    \/ Tick

Spec == Init /\ [][Next]_vars

\* Requests handled concurrently, their steps interleaved at the stores.
NextConc ==
    \/ \E w \in Workers :
          \/ \E in \in ConcInputs : Post(w, in)
          \/ \E in \in OptionsInputs : Options(w, in)
          \/ Step(w)
    \/ Tick

SpecConc == Init /\ [][NextConc]_vars

\* -------------------------------------------------------------- task actions
\* The results a task body passes to set_status.
TaskResults ==
    {TaskResult(st, ms, uid) :
        st \in TaskResultStatus, ms \in {<<>>, <<"done">>}, uid \in Uids}

\* TaskInfo.save: the key takes a truthy uid, and so does task_name; the
\* cache as it is after cache.set(key, self).
Save(info) ==
    LET key == CacheKey(info.task_name, info.result.uid)
        named == IF info.result.uid \notin {None, ""}
                 THEN [info EXCEPT !.task_name = @ \o "_" \o info.result.uid]
                 ELSE info
    IN  [stored |-> named, cache |-> [cache EXCEPT ![key] = named]]

\* The worker starts a run of the task on the instance it holds; __init__
\* is not run again.
Run ==
    /\ task.pc = "idle"
    /\ task.runs < MaxRuns
    /\ task' = [TaskIdle EXCEPT !.pc = "run", !.runs = task.runs + 1]
    /\ UNCHANGED <<result, cache, now, tokenVars>>

\* MonitoredTask.set_status, called by the body of the run.
SetStatus(res) ==
    /\ task.pc = "run"
    /\ result' = res
    /\ task' = [task EXCEPT !.called = TRUE, !.passed = res]
    /\ UNCHANGED <<cache, now, tokenVars>>

\* MonitoredTask.on_failure: the body of the run raised.
OnFailure ==
    /\ task.pc = "run"
    /\ LET s == Save(TaskInfo(TaskName, TaskDoc, now, result))
       IN  /\ cache' = s.cache
           /\ task' = [task EXCEPT !.pc = "failed", !.saved = s.stored]
    /\ UNCHANGED <<result, now, tokenVars>>

\* MonitoredTask.after_return: called after the body returned, and after
\* on_failure when it raised.
AfterReturn ==
    /\ task.pc \in {"run", "failed"}
    /\ LET s == Save(TaskInfo(TaskName, TaskDoc, now, result))
       IN  /\ cache' = s.cache
           /\ task' = [task EXCEPT !.pc = "idle", !.saved = s.stored]
    /\ UNCHANGED <<result, now, tokenVars>>

NextTask ==
    \/ Run
    \/ \E res \in TaskResults : SetStatus(res)
    \/ OnFailure
    \/ AfterReturn
    \/ Tick

SpecTask == Init /\ [][NextTask]_vars

\* ============================================================== claims
Done(w) == req[w].pc = "done"
IsCodeExchange(w) == Done(w) /\ req[w].in.method = "POST"
                        /\ req[w].in.grant_type = "authorization_code"
IsRefresh(w) == Done(w) /\ req[w].in.method = "POST"
                   /\ req[w].in.grant_type = "refresh_token"

\* The request names a provider, passes the client-secret check of
\* __post_init__ and presents a redirect_uri that one of the patterns matches.
ClientAndRedirectOk(in) ==
    LET p == ProviderByClientId(in.client_id)
    IN  /\ p # None
        /\ OAuth2Provider[p].client_type = "confidential"
              => OAuth2Provider[p].client_secret = in.client_secret
        /\ AnyFullMatch(OAuth2Provider[p].redirect_uris, Lower(in.redirect_uri), 1) = "True"

\* The request names a provider and passes the client-secret check.
ClientOk(in) ==
    LET p == ProviderByClientId(in.client_id)
    IN  /\ p # None
        /\ OAuth2Provider[p].client_type = "confidential"
              => OAuth2Provider[p].client_secret = in.client_secret

\* C1 (as claimed): once an exchange of a code has succeeded the code is
\* gone from the store, and every later exchange presenting it is answered
\* 400 invalid_grant and mints nothing.
C1_SingleUseAsClaimed ==
    /\ consumed \cap codes = {}
    /\ \A w \in Workers :
          (IsCodeExchange(w) /\ req[w].late)
             => /\ req[w].resp.status = 400
                /\ req[w].resp.error = "invalid_grant"
                /\ req[w].new = NoToken

\* C1 (amended): once an exchange of a code has succeeded the code is gone
\* from the store, and every later exchange presenting it is answered 400
\* and mints nothing; the error is invalid_grant when the request passes
\* client authentication and redirect_uri validation, invalid_client
\* otherwise.
C1_SingleUse ==
    /\ consumed \cap codes = {}
    /\ \A w \in Workers :
          (IsCodeExchange(w) /\ req[w].late)
             => /\ req[w].resp.status = 400
                /\ req[w].resp.error =
                      IF ClientAndRedirectOk(req[w].in) THEN "invalid_grant"
                      ELSE "invalid_client"
                /\ req[w].new = NoToken

C1_Witness ==
    \E w \in Workers :
        /\ IsCodeExchange(w) /\ req[w].late /\ req[w].in.code = "c1"
        /\ req[w].resp.error = "invalid_grant"

\* C2: of two requests presenting the same authorization code, at most one
\* is answered 200.
C2_AtMostOneCodeExchange ==
    \A w1, w2 \in Workers :
        (/\ w1 # w2 /\ IsCodeExchange(w1) /\ IsCodeExchange(w2)
         /\ req[w1].in.code = req[w2].in.code
         /\ req[w1].resp.status = 200)
            => req[w2].resp.status # 200

\* C3: of two refresh requests presenting the same refresh token, at most
\* one is answered 200; the other is answered 400 invalid_grant and a
\* SUSPICIOUS_REQUEST event is emitted for it.
C3_AtMostOneRefresh ==
    \A w1, w2 \in Workers :
        (/\ w1 # w2 /\ IsRefresh(w1) /\ IsRefresh(w2)
         /\ req[w1].in.refresh_token = req[w2].in.refresh_token
         /\ req[w1].resp.status = 200)
            => /\ req[w2].resp.status = 400
               /\ req[w2].resp.error = "invalid_grant"
               /\ SuspiciousRequest \in req[w2].events

\* C4: after a refresh exchange answered 200, the store holds the presented
\* row with revoked set and a new row, not revoked, whose refresh_token and
\* access_token are the ones of the response.
C4_RefreshRotation ==
    \A w \in Workers :
        (IsRefresh(w) /\ req[w].resp.status = 200)
            => /\ \E r \in tokens :
                     r.refresh_token = req[w].in.refresh_token /\ r.revoked
               /\ \E n \in tokens :
                     /\ n.refresh_token # req[w].in.refresh_token
                     /\ ~n.revoked
                     /\ n.refresh_token = req[w].resp.refresh_token
                     /\ n.access_token = req[w].resp.access_token

\* A refresh answered 200 whose presented row carried an id_token, and one
\* whose presented row carried none.
C4_Witness ==
    \E w \in Workers :
        /\ IsRefresh(w) /\ req[w].resp.status = 200
        /\ req[w].refresh_token.id_token # NoIdToken

C4_WitnessNoIdToken ==
    \E w \in Workers :
        /\ IsRefresh(w) /\ req[w].resp.status = 200
        /\ req[w].refresh_token.id_token = NoIdToken

\* The stored row a refresh request presents.
PresentedRow(w) ==
    CHOOSE r \in tokens : r.refresh_token = req[w].in.refresh_token

\* C5: every refresh request that passes client authentication and presents
\* a row of its provider that is revoked is answered with an error and
\* emits SUSPICIOUS_REQUEST, whether or not the row has also expired.
C5_RevokedAudit ==
    \A w \in Workers :
        (/\ IsRefresh(w) /\ req[w].late
         /\ ClientOk(req[w].in)
         /\ PresentedRow(w).provider = req[w].provider)
            => /\ req[w].resp.status >= 400
               /\ SuspiciousRequest \in req[w].events

\* The part of C5 the code keeps: a revoked row that has not expired is
\* answered 400 invalid_grant with SUSPICIOUS_REQUEST, and nothing is minted.
RevokedUnexpiredAudited ==
    \A w \in Workers :
        (/\ IsRefresh(w) /\ req[w].late
         /\ ClientOk(req[w].in)
         /\ PresentedRow(w).provider = req[w].provider
         /\ ~IsExpired(PresentedRow(w)))
            => /\ req[w].resp.status = 400
               /\ req[w].resp.error = "invalid_grant"
               /\ req[w].new = NoToken
               /\ SuspiciousRequest \in req[w].events

\* C6: a token minted from a code carries the code's scope whatever scope
\* was requested; a token minted by a refresh carries a subset of the
\* presented row's scope; every token descending from a code carries a
\* subset of that code's scope; a refresh that loaded its row and requests
\* a scope outside the row's is answered invalid_scope and mints nothing.
C6_ScopeMonotone ==
    /\ \A w \in Workers :
          req[w].new # NoToken =>
             /\ req[w].in.grant_type = "authorization_code"
                   => req[w].new.scope
                         \subseteq AuthorizationCode[req[w].authorization_code].scope
             /\ req[w].in.grant_type = "refresh_token"
                   => req[w].new.scope \subseteq req[w].refresh_token.scope
    /\ \A o \in origin :
          \A r \in tokens \cup {req[w].new : w \in Workers} :
             r.refresh_token = o[1] => r.scope \subseteq AuthorizationCode[o[2]].scope
    /\ \A w \in Workers :
          (/\ IsRefresh(w) /\ req[w].refresh_token # NoToken
           /\ ~(req[w].in.scope \subseteq req[w].refresh_token.scope))
             => /\ req[w].resp.status = 400
                /\ req[w].resp.error = "invalid_scope"
                /\ req[w].new = NoToken

\* A refresh, answered 200, of a token minted from c1 in this behaviour,
\* narrowing the scope.
C6_Witness ==
    \E w \in Workers :
        /\ IsRefresh(w) /\ req[w].resp.status = 200
        /\ req[w].in.refresh_token = "rt1"
        /\ <<req[w].new.refresh_token, "c1">> \in origin
        /\ req[w].new.scope = {"email"}

C6_WitnessInvalidScope ==
    \E w \in Workers : IsRefresh(w) /\ req[w].resp.error = "invalid_scope"

\* C7: for the code c1, whose challenge is the S256 challenge of "v1", an
\* otherwise valid exchange with code_verifier "v1" is answered 200, and
\* one with any other code_verifier value is answered 400 invalid_grant.
C7_PkceS256 ==
    \A w \in Workers :
        (/\ IsCodeExchange(w) /\ ~req[w].late
         /\ req[w].in.code = "c1"
         /\ AuthorizationCode["c1"].code_challenge_method = "S256"
         /\ AuthorizationCode["c1"].code_challenge = S256Challenge("v1")
         /\ ClientAndRedirectOk(req[w].in)
         /\ req[w].in.code_verifier # None)
            => IF req[w].in.code_verifier = "v1"
               THEN req[w].resp.status = 200
               ELSE /\ req[w].resp.status = 400
                    /\ req[w].resp.error = "invalid_grant"

\* C8: an exchange, passing client authentication and redirect validation,
\* of a code whose code_challenge is set, sent without a code_verifier, is
\* answered 400 invalid_grant and mints nothing.
C8_PkceMandatory ==
    \A w \in Workers :
        (/\ IsCodeExchange(w)
         /\ req[w].in.code \in DOMAIN AuthorizationCode
         /\ AuthorizationCode[req[w].in.code].code_challenge # ""
         /\ req[w].in.code_verifier = None
         /\ ClientAndRedirectOk(req[w].in))
            => /\ req[w].resp.status = 400
               /\ req[w].resp.error = "invalid_grant"
               /\ req[w].new = NoToken

C10_CorsMirror ==
    \A w \in Workers :
        (Done(w) /\ req[w].in.method = "OPTIONS")
            => LET p == ProviderByClientId(req[w].in.client_id)
                   uris == OAuth2Provider[p].redirect_uris
                   configured == {OriginOf(uris[i]) : i \in 1..Len(uris)} \ {None}
               IN  req[w].resp.allow_origin =
                      IF req[w].in.origin \in configured THEN req[w].in.origin
                      ELSE None

\* C11: every POST is answered 200, 400 or 403; in particular a request of
\* one of the four recognized grant types whose validation passed is
\* answered 200 and never ends in an exception nothing handles.
C11_ResponseTotality ==
    \A w \in Workers :
        (Done(w) /\ req[w].in.method = "POST")
            => /\ req[w].resp.status \in {200, 400, 403}
               /\ req[w].resp.error \notin TokenErrors => req[w].resp.status = 200

\* C12: the 200 response of a code exchange has an id_token field exactly
\* when the code is an OpenID code, and the 200 response of a refresh has
\* one exactly when the presented row carried an id_token.
C12_IdTokenPresence ==
    \A w \in Workers :
        /\ (IsCodeExchange(w) /\ req[w].resp.status = 200)
              => ("id_token" \in req[w].resp.fields
                    <=> AuthorizationCode[req[w].in.code].is_open_id)
        /\ (IsRefresh(w) /\ req[w].resp.status = 200)
              => ("id_token" \in req[w].resp.fields
                    <=> req[w].refresh_token.id_token # NoIdToken)

\* C13: a POST answered 400 leaves the code store and the refresh-token
\* store as they were when the request arrived: the step that takes a
\* request writes neither store, a 400 is produced either by that step or by
\* the scope check that follows it, and the step producing a 400 deletes no
\* code, creates no row and changes no revoked flag.
C13_NoEffectOnRejection ==
    [][\A w \in Workers :
          /\ (req[w].pc = "idle" /\ req'[w].pc # "idle")
                => (codes' = codes /\ tokens' = tokens)
          /\ (/\ req[w].pc # "done" /\ req'[w].pc = "done"
              /\ req'[w].in.method = "POST"
              /\ req'[w].resp.status = 400)
                => /\ req[w].pc \in {"idle", "create_refresh_response"}
                   /\ codes' = codes /\ tokens' = tokens
                   /\ req'[w].new = NoToken]_vars

\* A code presented with a redirect_uri no pattern matches is answered
\* invalid_client and is still in the store.
C13_Witness ==
    \E w \in Workers :
        /\ IsCodeExchange(w) /\ req[w].in.code = "c1"
        /\ req[w].in.redirect_uri = "https://evil/cb"
        /\ req[w].resp.status = 400 /\ req[w].resp.error = "invalid_client"
        /\ "c1" \in codes

GrantTypes == {"authorization_code", "refresh_token", "client_credentials", "password"}

\* C14: a POST whose client_id names no provider is answered 400
\* invalid_client whatever its grant_type; a POST whose client_id names a
\* provider and whose grant_type is none of the four recognized ones is
\* answered 400 unsupported_grant_type, whatever its client_secret.
C14_ErrorPrecedence ==
    \A w \in Workers :
        (Done(w) /\ req[w].in.method = "POST")
            => /\ ProviderByClientId(req[w].in.client_id) = None
                    => /\ req[w].resp.status = 400
                       /\ req[w].resp.error = "invalid_client"
               /\ (/\ ProviderByClientId(req[w].in.client_id) # None
                   /\ req[w].in.grant_type \notin GrantTypes)
                    => /\ req[w].resp.status = 400
                       /\ req[w].resp.error = "unsupported_grant_type"

\* An unrecognized grant_type sent with a wrong secret for a confidential
\* client.
C14_Witness ==
    \E w \in Workers :
        /\ Done(w) /\ req[w].in.grant_type = "device_code"
        /\ req[w].in.client_id = "id1" /\ req[w].in.client_secret = "bad"
        /\ req[w].resp.error = "unsupported_grant_type"

C14_WitnessUnknownClient ==
    \E w \in Workers :
        /\ Done(w) /\ req[w].in.grant_type = "client_credentials"
        /\ req[w].in.client_id = "idX"
        /\ req[w].resp.error = "invalid_client"

\* C15: for every grant type, a request that passes client authentication
\* (and, for a code, redirect_uri validation) for a provider no Application
\* is bound to is answered 400 invalid_grant and mints no token.
C15_ApplicationBinding ==
    \A w \in Workers :
        (/\ Done(w) /\ req[w].in.method = "POST"
         /\ req[w].in.grant_type \in GrantTypes
         /\ IF req[w].in.grant_type = "authorization_code"
            THEN ClientAndRedirectOk(req[w].in) ELSE ClientOk(req[w].in)
         /\ ApplicationOf(ProviderByClientId(req[w].in.client_id)) = None)
            => /\ req[w].resp.status = 400
               /\ req[w].resp.error = "invalid_grant"
               /\ req[w].new = NoToken

\* The part of C15 the code keeps: a client_credentials or password request
\* for a provider without an Application is answered 400 invalid_grant and
\* mints nothing.
CredentialsNeedApplication ==
    \A w \in Workers :
        (/\ Done(w) /\ req[w].in.method = "POST"
         /\ req[w].in.grant_type \in {"client_credentials", "password"}
         /\ req[w].provider # None
         /\ ApplicationOf(req[w].provider) = None)
            => /\ req[w].resp.status = 400
               /\ req[w].resp.error = "invalid_grant"
               /\ req[w].new = NoToken

\* C16: a code exchange with a non-empty code, passing client
\* authentication, for a provider whose redirect_uris holds a malformed
\* pattern at any position is answered 400 invalid_client with a
\* CONFIGURATION_ERROR event, and never ends in an internal error.
C16_MalformedPattern ==
    \A w \in Workers :
        (/\ IsCodeExchange(w) /\ req[w].in.code # ""
         /\ ClientOk(req[w].in)
         /\ \E i \in 1..Len(OAuth2Provider[req[w].provider].redirect_uris) :
               ~Compiles(OAuth2Provider[req[w].provider].redirect_uris[i]))
            => /\ req[w].resp.status = 400
               /\ req[w].resp.error = "invalid_client"
               /\ ConfigurationError \in req[w].events

\* The part of C16 the code keeps: when no pattern before the malformed one
\* matches, the answer is invalid_client with the event; no exchange ends in
\* an exception of the pattern matching.
MalformedPatternReached ==
    \A w \in Workers :
        (/\ IsCodeExchange(w) /\ req[w].in.code # ""
         /\ ClientOk(req[w].in)
         /\ AnyFullMatch(OAuth2Provider[req[w].provider].redirect_uris,
                         Lower(req[w].in.redirect_uri), 1) = "RegexError")
            => /\ req[w].resp.status = 400
               /\ req[w].resp.error = "invalid_client"
               /\ ConfigurationError \in req[w].events

LoginEvents(w) == {e \in req[w].events : e.action = "LOGIN"}

\* C17: a client_credentials or password request (username/password or
\* JWT assertion) whose policy gate result is non-passing is answered 400
\* invalid_grant, and in it no token is minted or saved, no LOGIN event is
\* emitted and no user is created or updated; a LOGIN event, a change of
\* the users and a token of these grants occur only in a request whose
\* gate returned passing.
C17_PolicyGateFirst ==
    [][/\ \A w \in Workers :
            (/\ req[w].pc = "idle" /\ req'[w].pc # "idle"
             /\ req'[w].gate = "denied")
               => /\ req'[w].in.grant_type \in {"client_credentials", "password"}
                  /\ req'[w].pc = "done"
                  /\ req'[w].resp.status = 400
                  /\ req'[w].resp.error = "invalid_grant"
                  /\ req'[w].new = NoToken
                  /\ LoginEvents(w)' = {}
                  /\ users' = users /\ tokens' = tokens
       /\ users' # users
            => \E w \in Workers : req[w].pc = "idle" /\ req'[w].gate = "passing"
       /\ \A w \in Workers :
            (\/ LoginEvents(w)' # {}
             \/ /\ req'[w].in.grant_type \in {"client_credentials", "password"}
                /\ req'[w].new # NoToken)
               => req'[w].gate = "passing"]_vars

\* A JWT assertion that verifies, refused by the policy gate; and a valid
\* username and app password refused by it.
C17_Witness ==
    \E w \in Workers :
        /\ Done(w) /\ req[w].gate = "denied"
        /\ req[w].in.client_assertion = "jwtA"
        /\ req[w].resp.error = "invalid_grant"

C17_WitnessPassword ==
    \E w \in Workers :
        /\ Done(w) /\ req[w].gate = "denied"
        /\ req[w].in.username = "u1" /\ req[w].in.password = "pw1"
        /\ req[w].resp.error = "invalid_grant"

\* The request takes the JWT-assertion branch for a provider.
IsJwtRequest(in) ==
    /\ in.method = "POST"
    /\ in.grant_type \in {"client_credentials", "password"}
    /\ in.client_assertion_type = JwtType
    /\ ProviderByClientId(in.client_id) # None

\* The assertion the JWT branch reads from a request.
AssertionOf(in) ==
    IF in.client_assertion # None THEN in.client_assertion ELSE in.client_secret

\* The keys of a provider: its verification keys and the keys of its sources.
KeysOf(p) ==
    {VerificationKeys(p)[i] : i \in 1..Len(VerificationKeys(p))}
    \cup UNION {{JwksSources(p)[j].keys[i] : i \in 1..Len(JwksSources(p)[j].keys)} :
                   j \in 1..Len(JwksSources(p))}

\* Some key of the provider verifies the assertion now.
AnyKeyVerifies(p, assertion) ==
    \E k \in KeysOf(p) : JwkParses(k) /\ Decode(assertion, k).verified

\* The orderings of a sequence.
Orderings(seq) ==
    {[i \in 1..Len(seq) |-> seq[f[i]]] : f \in Permutations(1..Len(seq))}

\* C18: an assertion passes verification exactly when some key among the
\* provider's verification keys and the keys of its sources verifies it,
\* in whatever order the keys are tried and whatever keys fail after one
\* has succeeded; when no key verifies, or the claims carry exp <= now, the
\* request is answered 400 invalid_grant.
C18_OrderIndependent ==
    [][\A w \in Workers :
          (/\ req[w].pc = "idle" /\ req'[w].pc # "idle"
           /\ IsJwtRequest(req'[w].in)
           /\ AssertionOf(req'[w].in) \notin {None, ""})
             => LET p == req'[w].provider
                    a == AssertionOf(req'[w].in)
                IN  /\ \A ks \in Orderings(VerificationKeys(p)) :
                       \A j \in 1..Len(JwksSources(p)) :
                       \A js \in Orderings(JwksSources(p)[j].keys) :
                          VerifySources([JwksSources(p) EXCEPT ![j].keys = js], a, 1,
                                        [token |-> VerifyStatic(ks, a, 1, NoClaims),
                                         source |-> None,
                                         parsed_key |-> None]).token.verified
                             <=> AnyKeyVerifies(p, a)
                    /\ (AnyKeyVerifies(p, a) /\ ApplicationOf(p) # None)
                          <=> req'[w].gate # "not run"
                    /\ ~AnyKeyVerifies(p, a)
                          => /\ req'[w].resp.status = 400
                             /\ req'[w].resp.error = "invalid_grant"
                    /\ (/\ a \in DOMAIN Assertions
                        /\ \E i \in 1..Len(Assertions[a].exp) :
                              Assertions[a].exp[i] <= now)
                          => /\ req'[w].resp.status = 400
                             /\ req'[w].resp.error = "invalid_grant"]_vars

\* An assertion signed by the first key of the source is accepted although
\* the keys tried after it fail; an assertion whose exp has passed is refused.
C18_Witness ==
    \E w \in Workers :
        /\ Done(w) /\ IsJwtRequest(req[w].in)
        /\ req[w].in.client_assertion = "jwtB"
        /\ req[w].resp.status = 200

C18_WitnessExpired ==
    \E w \in Workers :
        /\ Done(w) /\ IsJwtRequest(req[w].in)
        /\ req[w].in.client_assertion = "jwtC"
        /\ req[w].resp.error = "invalid_grant"

\* C19: in the LOGIN event of method "jwt", jwk_id, when present, is a key
\* that verified the assertion and source, when present, is a source
\* holding such a key; both are absent when only a static verification key
\* verified the assertion.
C19_LoginAttribution ==
    \A w \in Workers :
        \A e \in LoginEvents(w) :
            e.method = "jwt"
               => LET p == req[w].provider
                      signer == Assertions[AssertionOf(req[w].in)].signer
                      static == {VerificationKeys(p)[i] :
                                    i \in 1..Len(VerificationKeys(p))}
                  IN  /\ e.jwk_id # None => e.jwk_id = signer
                      /\ e.source # None
                            => \E j \in 1..Len(JwksSources(p)) :
                                  /\ JwksSources(p)[j].name = e.source
                                  /\ \E i \in 1..Len(JwksSources(p)[j].keys) :
                                        JwksSources(p)[j].keys[i] = signer
                      /\ signer \in static
                            => (e.source = None /\ e.jwk_id = None)

\* The credential a code or refresh request presents to provider p is
\* missing from the store, belongs to another provider or has expired.
CredentialUnusable(p, in) ==
    IF in.grant_type = "authorization_code"
    THEN \/ in.code \notin codes
         \/ AuthorizationCode[in.code].provider # p
         \/ IsExpired(AuthorizationCode[in.code])
    ELSE \A r \in tokens :
            r.refresh_token = in.refresh_token => (r.provider # p \/ IsExpired(r))

\* C20 (as claimed): a code or refresh request that passes client
\* authentication and presents a credential that is missing, belongs to
\* another provider or has expired is answered 400 invalid_grant, and
\* deletes no code and changes no refresh token.
C20_CredentialBindingAsClaimed ==
    [][\A w \in Workers :
          (/\ req[w].pc = "idle" /\ req'[w].pc # "idle"
           /\ req'[w].in.method = "POST"
           /\ req'[w].in.grant_type \in {"authorization_code", "refresh_token"}
           /\ ClientOk(req'[w].in)
           /\ CredentialUnusable(req'[w].provider, req'[w].in))
             => /\ req'[w].pc = "done"
                /\ req'[w].resp.status = 400
                /\ req'[w].resp.error = "invalid_grant"
                /\ codes' = codes /\ tokens' = tokens]_vars

\* C20 (amended): such a request never succeeds and deletes no code and
\* changes no refresh token; it is answered 400 invalid_grant, except that
\* a non-empty code presented with a redirect_uri that fails validation is
\* answered 400 invalid_client.
C20_CredentialBinding ==
    [][\A w \in Workers :
          (/\ req[w].pc = "idle" /\ req'[w].pc # "idle"
           /\ req'[w].in.method = "POST"
           /\ req'[w].in.grant_type \in {"authorization_code", "refresh_token"}
           /\ ClientOk(req'[w].in)
           /\ CredentialUnusable(req'[w].provider, req'[w].in))
             => /\ req'[w].pc = "done"
                /\ req'[w].resp.status = 400
                /\ req'[w].resp.error =
                      IF /\ req'[w].in.grant_type = "authorization_code"
                         /\ req'[w].in.code # ""
                         /\ ~ClientAndRedirectOk(req'[w].in)
                      THEN "invalid_client" ELSE "invalid_grant"
                /\ codes' = codes /\ tokens' = tokens]_vars

\* A code of another provider, an expired code and an expired refresh
\* token, each refused with invalid_grant and still in the store.
C20_Witness ==
    \E w \in Workers :
        /\ IsCodeExchange(w) /\ req[w].in.code = "c1" /\ req[w].in.client_id = "id2"
        /\ req[w].resp.error = "invalid_grant"
        /\ "c1" \in codes

C20_WitnessExpiredCode ==
    \E w \in Workers :
        /\ IsCodeExchange(w) /\ req[w].in.code = "c2" /\ now >= 1
        /\ req[w].resp.error = "invalid_grant"
        /\ "c2" \in codes

C20_WitnessExpiredToken ==
    \E w \in Workers :
        /\ IsRefresh(w) /\ ~req[w].late
        /\ \E r \in tokens :
              r.refresh_token = req[w].in.refresh_token /\ IsExpired(r) /\ ~r.revoked
        /\ req[w].resp.error = "invalid_grant"

\* The rows of the refresh-token store keep their place and their revoked
\* flag only rises: no step deletes a row, and no step saves a revoked row
\* with the flag cleared.
RowsKeptAndRevokedTerminal ==
    [][\A r \in tokens :
          \E r2 \in tokens' :
              /\ r2.refresh_token = r.refresh_token
              /\ r.revoked => r2.revoked]_vars

RevokedOnlyByRefresh ==
    [][\A r \in tokens, r2 \in tokens' :
          (r2.refresh_token = r.refresh_token /\ ~r.revoked /\ r2.revoked)
              => \E w \in Workers :
                    /\ req[w].pc = "revoke" /\ req'[w].pc = "done"
                    /\ req'[w].in.grant_type = "refresh_token"
                    /\ req'[w].in.refresh_token = r.refresh_token]_vars

\* A refresh_token exchange that ended in an exception nothing handles and
\* left the row it presented revoked.
RevokedByFailedRefresh ==
    \E w \in Workers :
        /\ IsRefresh(w) /\ req[w].in.grant_type = "refresh_token"
        /\ req[w].resp.status = 500
        /\ \E r \in tokens :
              r.refresh_token = req[w].in.refresh_token /\ r.revoked

\* The step in which worker w takes a JWT-assertion request that passes
\* validation, which is where the user is synthesized.
JwtLogin(w) ==
    /\ req[w].pc = "idle"
    /\ IsJwtRequest(req'[w].in)
    /\ req'[w].pc = "create_client_credentials_response"

\* The username of the user synthesized for a JWT-assertion request.
SynthesizedName(in) ==
    OAuth2Provider[ProviderByClientId(in.client_id)].name \o "-"
        \o Assertions[AssertionOf(in)].sub

\* After every JWT-assertion login exactly one user has the synthesized
\* username and it has GENERATED set; a login that creates the user stores
\* the exp of its assertion as EXPIRES.
SynthesizedUserUnique ==
    [][\A w \in Workers :
          JwtLogin(w)
             => LET name == SynthesizedName(req'[w].in)
                    exp == Assertions[AssertionOf(req'[w].in)].exp
                IN  /\ Cardinality({u \in users' : u.username = name}) = 1
                    /\ \A u \in users' : u.username = name => u.generated
                    /\ (~\E u \in users : u.username = name)
                          => \A u \in users' : u.username = name => u.expires = exp]_vars

\* C22: after any sequence of successful JWT-assertion grants for one
\* provider and subject, exactly one user has the synthesized username, it
\* has GENERATED set, and the EXPIRES it was given by the assertion that
\* created it is still there after every later assertion login.
C22_SynthesizedUserPersists ==
    [][\A w \in Workers :
          JwtLogin(w)
             => LET name == SynthesizedName(req'[w].in)
                    exp == Assertions[AssertionOf(req'[w].in)].exp
                IN  /\ Cardinality({u \in users' : u.username = name}) = 1
                    /\ \A u \in users' : u.username = name => u.generated
                    /\ (~\E u \in users : u.username = name)
                          => \A u \in users' : u.username = name => u.expires = exp
                    /\ \A u \in users :
                          u.username = name
                             => \E u2 \in users' :
                                   u2.username = name /\ u2.expires = u.expires]_vars

\* A synthesized user that carries EXPIRES, and one that carries none after
\* an assertion login.
SynthesizedUserWithExpires ==
    \E u \in users : u.generated /\ u.expires # <<>>

SynthesizedUserLostExpires ==
    \E w \in Workers :
        /\ Done(w) /\ IsJwtRequest(req[w].in) /\ req[w].resp.status = 200
        /\ req[w].in.client_assertion = "jwtB"
        /\ \E u \in users : u.username = req[w].user /\ u.expires = <<>>

\* C23: the TaskInfo saved to the cache when a run returns or fails
\* carries the TaskResult passed to set_status during that run, and status
\* ERROR with no messages when the run did not call set_status.
C23_ResultPerRun ==
    task.saved # NoTaskInfo
        => /\ task.called => task.saved.result = task.passed
           /\ ~task.called
                 => /\ task.saved.result.status = "ERROR"
                    /\ task.saved.result.messages = <<>>

\* A run that called set_status saves what it passed last, under the key of
\* that result; a run that did not saves what the instance holds.
SavedResultIsHeld ==
    task.saved # NoTaskInfo
        => /\ task.saved.result = result
           /\ task.called => task.saved.result = task.passed
           /\ cache[CacheKey(TaskName, result.uid)] = task.saved

\* A second run that failed before calling set_status and saved the
\* result of the run before it.
StaleResultSaved ==
    /\ task.runs = 2 /\ ~task.called
    /\ task.saved.result.status = "SUCCESSFUL"

====
